---- MODULE Spec2Model ----
(***************************************************************************)
(* A model of package coolq's client (src/coolq/cqclient.go): the plugin   *)
(* registry built by RegisterAllPlugins, the event fan-out installed by    *)
(* Initialize on the event connection, and the echo queue handled by the   *)
(* api connection's OnMessage callback, the send methods and the sweep     *)
(* goroutine.                                                              *)
(*                                                                         *)
(* Four specifications share the variables.  Spec runs registration and    *)
(* event dispatch; SpecEcho runs the send path, the reply path and the     *)
(* sweep; SpecReg2 runs two concurrent RegisterAllPlugins calls;           *)
(* SpecStatus runs GetStatus on every reply of the http api.  The halves   *)
(* of the client share only the mutex.                                     *)
(***************************************************************************)
EXTENDS Integers, Sequences, FiniteSets, TLC

\* ------------------------------------------------------------------ bounds
MaxPlugins == 2          \* length of the plugin list `entries`
MaxEvents == 2           \* inbound frames on the event connection
Names == {"p", "q"}      \* values of PluginInterface.Name()
Keys == {"a", "b"}       \* keys of the maps returned by Filters() / Handlers()
MaxFuncs == 3            \* filters plus handlers supplied by all plugins together
MaxTime == 62            \* last clock second, counted from Initialize
MaxSends == 2            \* calls of the send methods
MaxReplies == 2          \* inbound frames on the api connection

\* --------------------------------------------------------------- constants
timeForWait == 30
noFilterKey == "__NEVER_SET_UNUSED_KEY__"

\* ------------------------------------------------------------------- state
VARIABLES
  entries,        \* the package's plugin list, in order
  regPc,          \* position of the RegisterAllPlugins call
  regIdx,         \* loop index of the current loop of RegisterAllPlugins
  loaded,         \* `loaded`: indices of the plugins whose Load succeeded
  mu,             \* c.mu: "free" or the actor holding it
  pluginEntries,  \* c.pluginEntries: name -> pluginEntry
  errLog,         \* plugins for which the load error was logged
  warnLog,        \* <<plugin, key>> of every "unused key" warning
  hookTasks,      \* `go plug.Loaded()` goroutines started and not yet run
  hooksRun,       \* plugin -> number of times Loaded() ran
  nextEvent,      \* number of the next inbound event frame
  seen,           \* event -> c.pluginEntries as ranged over by its dispatch
  regDoneAt,      \* event -> whether RegisterAllPlugins had returned at its dispatch
  tasks,          \* goroutines started by the event callback, still alive
  filterCalls,    \* <<event, filter>> -> number of evaluations (those evaluated)
  filterResult,   \* <<event, filter>> -> results returned
  handlerCalls,   \* <<event, handler>> -> number of invocations (those invoked)
  decodeErrs,     \* frames dropped by the event callback (json error)
  crashed,        \* a goroutine panicked (call of a nil func value)
  now,            \* time.Now().Unix(), counted from Initialize
  apiConnected,   \* c.apiConn.IsConnected()
  echoqueue,      \* c.echoqueue: echo -> state
  wire,           \* envelopes handed to c.apiConn.Send, in order
  sendCalls,      \* calls of the send methods so far
  replied,        \* echoes of the decoded reply frames
  replyCount,     \* frames received on the api connection so far
  apiErrs,        \* frames dropped by the api callback (json error)
  timeoutLog,     \* echoes of the "response time out" log lines
  nextTick,       \* when the sweep's ticker fires next
  lastSweep,      \* `now` as read by the latest sweep pass, -1 before the first
  unlockedAccess, \* actors that read c.echoqueue while not holding c.mu
  call2,          \* a second, concurrent RegisterAllPlugins call: its position and locals
  statusReq,      \* what a GetStatus call meets: c.apiURL, the http reply and its body
  statusRes       \* what the GetStatus call came to

regVars == <<regPc, regIdx, loaded, mu, pluginEntries, errLog, warnLog, hookTasks, hooksRun>>
evVars == <<nextEvent, seen, regDoneAt, tasks, filterCalls, filterResult, handlerCalls, decodeErrs, crashed>>
regRest == <<regPc, regIdx, loaded, pluginEntries, errLog, warnLog, hookTasks, hooksRun>>
echoVars == <<now, apiConnected, echoqueue, wire, sendCalls, replied, replyCount, apiErrs,
              timeoutLog, nextTick, lastSweep, unlockedAccess>>
auxVars == <<call2, statusReq, statusRes>>
vars == <<entries, regVars, evVars, echoVars, auxVars>>

\* ----------------------------------------------------------------- helpers
Plugins == 1..MaxPlugins
Events == 1..MaxEvents

\* A filter or a handler is named by the plugin that supplied it and its key.
FuncIds == Plugins \X Keys

\* What a plugin reports: Name(), whether Load() returns nil, and the key sets
\* of Filters() and Handlers().
PluginConfigs == [name : Names, loadOK : BOOLEAN, filters : SUBSET Keys, handlers : SUBSET Keys]

\* Every order in which a `range` over a map with key set S can visit it.
RECURSIVE Perms(_)
Perms(S) ==
  IF S = {} THEN {<<>>}
  ELSE UNION {{<<k>> \o rest : rest \in Perms(S \ {k})} : k \in S}

RECURSIVE SeqMap(_, _)
\* the sequence of <<p, k>> for k in ks
SeqMap(p, ks) ==
  IF ks = <<>> THEN <<>> ELSE <<<<p, Head(ks)>>>> \o SeqMap(p, Tail(ks))

Range(s) == {s[i] : i \in DOMAIN s}

\* The logs of calls: how often x was called (0 when never), and the log
\* after one more call of x.
Count(b, x) == IF x \in DOMAIN b THEN b[x] ELSE 0

Inc(b, x) == [y \in DOMAIN b \cup {x} |-> Count(b, y) + (IF y = x THEN 1 ELSE 0)]

\* The log b of returned results after x returned r.
AddResult(b, x, r) ==
  [y \in DOMAIN b \cup {x} |-> (IF y \in DOMAIN b THEN b[y] ELSE {}) \cup (IF y = x THEN {r} ELSE {})]

RECURSIVE TotalFuncs(_)
\* the number of filters and handlers the plugins of the list es supply
TotalFuncs(es) ==
  IF es = <<>> THEN 0
  ELSE Cardinality(Head(es).filters) + Cardinality(Head(es).handlers) + TotalFuncs(Tail(es))

\* The plugin lists the model runs on.
PluginLists ==
  {es \in UNION {[1..n -> PluginConfigs] : n \in 0..MaxPlugins} : TotalFuncs(es) <= MaxFuncs}

\* ------------------------------------------------------------ registration
\* Entry without `hasFilter[key] = true`: every handler, paired ones
\* included, lands in noFilterHanlers.
EntryNoHasFilter(p, plug, ford, hord) ==
  LET keys == SelectSeq(ford, LAMBDA k : k \in plug.handlers)
      noFilterHanlers == SeqMap(p, hord)
  IN  [keys |-> keys,
       fitlers |-> [k \in Range(keys) |-> <<p, k>>],
       handlers |-> [k \in Range(keys) \cup {noFilterKey} |->
                       IF k = noFilterKey THEN noFilterHanlers ELSE <<<<p, k>>>>]]

\* Entry without the `handler == nil` test: every filter key is kept.
EntryKeepUnused(p, plug, ford, hord) ==
  LET keys == ford
      hasFilter == Range(keys)
      noFilterHanlers == SeqMap(p, SelectSeq(hord, LAMBDA k : k \notin hasFilter))
  IN  [keys |-> keys,
       fitlers |-> [k \in Range(keys) |-> <<p, k>>],
       handlers |-> [k \in Range(keys) \cup {noFilterKey} |->
                       IF k = noFilterKey THEN noFilterHanlers ELSE <<<<p, k>>>>]]

\* Entry without `entry.fitlers[key] = filter`: the keys are listed and their
\* handlers stored, the filter map stays empty.
EntryNoFilterStored(p, plug, ford, hord) ==
  LET keys == SelectSeq(ford, LAMBDA k : k \in plug.handlers)
      hasFilter == Range(keys)
      noFilterHanlers == SeqMap(p, SelectSeq(hord, LAMBDA k : k \notin hasFilter))
  IN  [keys |-> keys,
       fitlers |-> <<>>,
       handlers |-> [k \in Range(keys) \cup {noFilterKey} |->
                       IF k = noFilterKey THEN noFilterHanlers ELSE <<<<p, k>>>>]]

\* The pluginEntry built by one iteration of the second loop of
\* RegisterAllPlugins for plugin number p.  ford and hord are the orders in
\* which the two `range` loops visit the filter map and the handler map.
\* A filter or handler stored in the entry is named <<p, key>>; a Handler
\* value is the sequence of plugin handlers it calls, one after another.
Entry(p, plug, ford, hord) ==
  LET keys == SelectSeq(ford, LAMBDA k : k \in plug.handlers)
      hasFilter == Range(keys)
      noFilterHanlers == SeqMap(p, SelectSeq(hord, LAMBDA k : k \notin hasFilter))
  IN  [keys |-> keys,
       fitlers |-> [k \in Range(keys) |-> <<p, k>>],
       handlers |-> [k \in Range(keys) \cup {noFilterKey} |->
                       IF k = noFilterKey THEN noFilterHanlers ELSE <<<<p, k>>>>]]

\* The filter keys for which the first `range` loop logs the warning.
UnusedKeys(plug) == {k \in plug.filters : k \notin plug.handlers}

\* c.pluginEntries[name] = entry
Install(reg, name, entry) ==
  [n \in DOMAIN reg \cup {name} |-> IF n = name THEN entry ELSE reg[n]]

\* RegLoad with `break` in place of `continue`: the first failure ends loop 1.
RegLoadAbort ==
  /\ ~crashed
  /\ regPc = "load"
  /\ regIdx <= Len(entries)
  /\ IF entries[regIdx].loadOK
       THEN loaded' = Append(loaded, regIdx) /\ regIdx' = regIdx + 1 /\ UNCHANGED errLog
       ELSE errLog' = errLog \cup {regIdx} /\ regIdx' = Len(entries) + 1 /\ UNCHANGED loaded
  /\ UNCHANGED <<auxVars, echoVars, entries, regPc, mu, pluginEntries, warnLog, hookTasks, hooksRun, evVars>>

\* Loop 1: plug.Load(); on error log and continue, else append to loaded.
RegLoad ==
  /\ ~crashed
  /\ regPc = "load"
  /\ regIdx <= Len(entries)
  /\ IF entries[regIdx].loadOK
       THEN loaded' = Append(loaded, regIdx) /\ UNCHANGED errLog
       ELSE errLog' = errLog \cup {regIdx} /\ UNCHANGED loaded
  /\ regIdx' = regIdx + 1
  /\ UNCHANGED <<auxVars, echoVars, entries, regPc, mu, pluginEntries, warnLog, hookTasks, hooksRun, evVars>>

\* c.mu.Lock() after the load loop.
RegLock ==
  /\ ~crashed
  /\ regPc = "load"
  /\ regIdx > Len(entries)
  /\ mu = "free"
  /\ mu' = "reg"
  /\ regPc' = IF loaded = <<>> THEN "unlock" ELSE "pair"
  /\ regIdx' = 1
  /\ UNCHANGED <<auxVars, echoVars, entries, loaded, pluginEntries, errLog, warnLog, hookTasks, hooksRun, evVars>>

\* Loop 2, one iteration: build the entry of loaded[regIdx] and install it.
RegPair ==
  /\ ~crashed
  /\ regPc = "pair"
  /\ LET p == loaded[regIdx]
         plug == entries[p]
     IN  /\ \E ford \in Perms(plug.filters), hord \in Perms(plug.handlers) :
               pluginEntries' = Install(pluginEntries, plug.name, Entry(p, plug, ford, hord))
         /\ warnLog' = warnLog \cup {<<p, k>> : k \in UnusedKeys(plug)}
  /\ IF regIdx < Len(loaded)
       THEN regIdx' = regIdx + 1 /\ UNCHANGED regPc
       ELSE regIdx' = 1 /\ regPc' = "notify"
  /\ UNCHANGED <<auxVars, echoVars, entries, loaded, mu, errLog, hookTasks, hooksRun, evVars>>

\* RegNotify ranging over `entries` in place of `loaded`.
RegNotifyAll ==
  /\ ~crashed
  /\ regPc = "notify"
  /\ hookTasks' = hookTasks \cup {regIdx}
  /\ IF regIdx < Len(entries)
       THEN regIdx' = regIdx + 1 /\ UNCHANGED regPc
       ELSE regIdx' = 1 /\ regPc' = "unlock"
  /\ UNCHANGED <<auxVars, echoVars, entries, loaded, mu, pluginEntries, errLog, warnLog, hooksRun, evVars>>

\* Loop 3, one iteration: go plug.Loaded()
RegNotify ==
  /\ ~crashed
  /\ regPc = "notify"
  /\ hookTasks' = hookTasks \cup {loaded[regIdx]}
  /\ IF regIdx < Len(loaded)
       THEN regIdx' = regIdx + 1 /\ UNCHANGED regPc
       ELSE regIdx' = 1 /\ regPc' = "unlock"
  /\ UNCHANGED <<auxVars, echoVars, entries, loaded, mu, pluginEntries, errLog, warnLog, hooksRun, evVars>>

\* The deferred c.mu.Unlock() when RegisterAllPlugins returns.
RegUnlock ==
  /\ ~crashed
  /\ regPc = "unlock"
  /\ mu' = "free"
  /\ regPc' = "done"
  /\ UNCHANGED <<auxVars, echoVars, entries, regIdx, loaded, pluginEntries, errLog, warnLog, hookTasks, hooksRun, evVars>>

\* A goroutine started by loop 3 runs plug.Loaded().
LoadedRun(p) ==
  /\ ~crashed
  /\ p \in hookTasks
  /\ hookTasks' = hookTasks \ {p}
  /\ hooksRun' = [hooksRun EXCEPT ![p] = @ + 1]
  /\ UNCHANGED <<auxVars, echoVars, entries, regPc, regIdx, loaded, mu, pluginEntries, errLog, warnLog, evVars>>

\* ------------------------------------------- a second RegisterAllPlugins call
\* RegisterAllPlugins called from a second goroutine while the first call is
\* anywhere on its way.  The call ranges over the same package list
\* `entries`; its `loaded`, its loop index and the goroutines it starts are
\* its own (call2.loaded, call2.idx, call2.hooks).
Call2Idle == [pc |-> "idle", idx |-> 1, loaded |-> <<>>, hooks |-> {}]

\* The second goroutine enters RegisterAllPlugins.
Reg2Call ==
  /\ ~crashed
  /\ call2.pc = "idle"
  /\ call2' = [call2 EXCEPT !.pc = "load"]
  /\ UNCHANGED <<echoVars, entries, regVars, evVars, statusReq, statusRes>>

\* Loop 1 of the second call.
Reg2Load ==
  /\ ~crashed
  /\ call2.pc = "load"
  /\ call2.idx <= Len(entries)
  /\ IF entries[call2.idx].loadOK
       THEN /\ call2' = [call2 EXCEPT !.loaded = Append(@, call2.idx), !.idx = @ + 1]
            /\ UNCHANGED errLog
       ELSE /\ call2' = [call2 EXCEPT !.idx = @ + 1]
            /\ errLog' = errLog \cup {call2.idx}
  /\ UNCHANGED <<echoVars, entries, regPc, regIdx, loaded, mu, pluginEntries, warnLog, hookTasks,
                 hooksRun, evVars, statusReq, statusRes>>

\* Reg2Lock without c.mu.Lock(): the second call goes on to loop 2 whoever
\* holds the mutex.
Reg2LockSkipped ==
  /\ ~crashed
  /\ call2.pc = "load"
  /\ call2.idx > Len(entries)
  /\ call2' = [call2 EXCEPT !.pc = IF call2.loaded = <<>> THEN "unlock" ELSE "pair", !.idx = 1]
  /\ UNCHANGED <<echoVars, entries, regVars, evVars, statusReq, statusRes>>

\* c.mu.Lock() of the second call: it waits until the mutex is free.
Reg2Lock ==
  /\ ~crashed
  /\ call2.pc = "load"
  /\ call2.idx > Len(entries)
  /\ mu = "free"
  /\ mu' = "reg2"
  /\ call2' = [call2 EXCEPT !.pc = IF call2.loaded = <<>> THEN "unlock" ELSE "pair", !.idx = 1]
  /\ UNCHANGED <<echoVars, entries, regRest, evVars, statusReq, statusRes>>

\* Loop 2 of the second call, one iteration.
Reg2Pair ==
  /\ ~crashed
  /\ call2.pc = "pair"
  /\ LET p == call2.loaded[call2.idx]
         plug == entries[p]
     IN  /\ \E ford \in Perms(plug.filters), hord \in Perms(plug.handlers) :
               pluginEntries' = Install(pluginEntries, plug.name, Entry(p, plug, ford, hord))
         /\ warnLog' = warnLog \cup {<<p, k>> : k \in UnusedKeys(plug)}
  /\ call2' = IF call2.idx < Len(call2.loaded)
                THEN [call2 EXCEPT !.idx = @ + 1]
                ELSE [call2 EXCEPT !.idx = 1, !.pc = "notify"]
  /\ UNCHANGED <<echoVars, entries, regPc, regIdx, loaded, mu, errLog, hookTasks, hooksRun, evVars,
                 statusReq, statusRes>>

\* Loop 3 of the second call, one iteration: go plug.Loaded()
Reg2Notify ==
  /\ ~crashed
  /\ call2.pc = "notify"
  /\ call2' = IF call2.idx < Len(call2.loaded)
                THEN [call2 EXCEPT !.hooks = @ \cup {call2.loaded[call2.idx]}, !.idx = @ + 1]
                ELSE [call2 EXCEPT !.hooks = @ \cup {call2.loaded[call2.idx]}, !.idx = 1,
                                   !.pc = "unlock"]
  /\ UNCHANGED <<echoVars, entries, regVars, evVars, statusReq, statusRes>>

\* The deferred c.mu.Unlock() of the second call.
Reg2Unlock ==
  /\ ~crashed
  /\ call2.pc = "unlock"
  /\ mu' = "free"
  /\ call2' = [call2 EXCEPT !.pc = "done"]
  /\ UNCHANGED <<echoVars, entries, regRest, evVars, statusReq, statusRes>>

\* A goroutine started by loop 3 of the second call runs plug.Loaded().
Loaded2Run(p) ==
  /\ ~crashed
  /\ p \in call2.hooks
  /\ call2' = [call2 EXCEPT !.hooks = @ \ {p}]
  /\ hooksRun' = [hooksRun EXCEPT ![p] = @ + 1]
  /\ UNCHANGED <<echoVars, entries, regPc, regIdx, loaded, mu, pluginEntries, errLog, warnLog,
                 hookTasks, evVars, statusReq, statusRes>>

\* ---------------------------------------------------------- event dispatch
\* A goroutine started by the event callback.  key = noFilterKey is the
\* `go entry.handlers[noFilterKey](event)` unit, whose Handler value hs was
\* read when the go statement ran; any other key is the closure of the inner
\* loop, which reads c.pluginEntries[name] when it runs.
Task(ev, name, key, pc, fid, hs, i) ==
  [ev |-> ev, name |-> name, key |-> key, pc |-> pc, fid |-> fid, hs |-> hs, i |-> i]

NoFid == <<0, "">>

\* Spawned without the catch-all goroutine of an entry that has no
\* handler without filter.
SpawnedSkipEmpty(ev, reg) ==
  {Task(ev, n, noFilterKey, "start", NoFid, reg[n].handlers[noFilterKey], 0) :
     n \in {m \in DOMAIN reg : reg[m].handlers[noFilterKey] # <<>>}}
  \cup UNION {{Task(ev, n, reg[n].keys[j], "start", NoFid, <<>>, 0) : j \in DOMAIN reg[n].keys}
              : n \in DOMAIN reg}

\* The goroutines one pass of `for name, entry := range c.pluginEntries` starts.
Spawned(ev, reg) ==
  {Task(ev, n, noFilterKey, "start", NoFid, reg[n].handlers[noFilterKey], 0) : n \in DOMAIN reg}
  \cup UNION {{Task(ev, n, reg[n].keys[j], "start", NoFid, <<>>, 0) : j \in DOMAIN reg[n].keys}
              : n \in DOMAIN reg}

\* EventOnMessage that waits for the goroutines of the previous events.
EventOnMessageWait(decodeOK) ==
  /\ ~crashed
  /\ nextEvent <= MaxEvents
  /\ tasks = {}
  /\ nextEvent' = nextEvent + 1
  /\ IF decodeOK
       THEN /\ tasks' = tasks \cup Spawned(nextEvent, pluginEntries)
            /\ seen' = [seen EXCEPT ![nextEvent] = pluginEntries]
            /\ regDoneAt' = [regDoneAt EXCEPT ![nextEvent] = (regPc = "done")]
            /\ UNCHANGED decodeErrs
       ELSE /\ decodeErrs' = decodeErrs \cup {nextEvent}
            /\ UNCHANGED <<tasks, seen, regDoneAt>>
  /\ UNCHANGED <<auxVars, echoVars, entries, regVars, filterCalls, filterResult, handlerCalls, crashed>>

\* eventConn.OnMessage: decode the frame; on error log and return, otherwise
\* start one goroutine per entry and one per key of each entry, and return.
EventOnMessage(decodeOK) ==
  /\ ~crashed
  /\ nextEvent <= MaxEvents
  /\ nextEvent' = nextEvent + 1
  /\ IF decodeOK
       THEN /\ tasks' = tasks \cup Spawned(nextEvent, pluginEntries)
            /\ seen' = [seen EXCEPT ![nextEvent] = pluginEntries]
            /\ regDoneAt' = [regDoneAt EXCEPT ![nextEvent] = (regPc = "done")]
            /\ UNCHANGED decodeErrs
       ELSE /\ decodeErrs' = decodeErrs \cup {nextEvent}
            /\ UNCHANGED <<tasks, seen, regDoneAt>>
  /\ UNCHANGED <<auxVars, echoVars, entries, regVars, filterCalls, filterResult, handlerCalls, crashed>>

\* The catch-all closure starts: it calls the first handler of
\* noFilterHanlers, or returns at once when there is none.
CatchAllRun(t) ==
  /\ ~crashed
  /\ t \in tasks
  /\ t.key = noFilterKey
  /\ t.pc = "start"
  /\ IF t.hs = <<>>
       THEN tasks' = tasks \ {t} /\ UNCHANGED handlerCalls
       ELSE /\ tasks' = (tasks \ {t}) \cup {[t EXCEPT !.pc = "handler", !.i = 1]}
            /\ handlerCalls' = Inc(handlerCalls, <<t.ev, t.hs[1]>>)
  /\ UNCHANGED <<auxVars, echoVars, entries, regVars, nextEvent, seen, regDoneAt, filterCalls, filterResult, decodeErrs, crashed>>

\* A keyed closure starts: c.pluginEntries[name].fitlers[key](event) is
\* called.  A missing key yields a nil func, whose call panics.
FilterCall(t) ==
  /\ ~crashed
  /\ t \in tasks
  /\ t.key # noFilterKey
  /\ t.pc = "start"
  /\ LET e == pluginEntries[t.name]
     IN  IF t.key \in DOMAIN e.fitlers
           THEN /\ tasks' = (tasks \ {t}) \cup {[t EXCEPT !.pc = "filter", !.fid = e.fitlers[t.key]]}
                /\ filterCalls' = Inc(filterCalls, <<t.ev, e.fitlers[t.key]>>)
                /\ UNCHANGED crashed
           ELSE /\ crashed' = TRUE
                /\ UNCHANGED <<tasks, filterCalls>>
  /\ UNCHANGED <<auxVars, echoVars, entries, regVars, nextEvent, seen, regDoneAt, filterResult, handlerCalls, decodeErrs>>

\* The filter returns r.  On false the closure returns; on true it calls
\* c.pluginEntries[name].handlers[key](event).
FilterReturn(t, r) ==
  /\ ~crashed
  /\ t \in tasks
  /\ t.pc = "filter"
  /\ filterResult' = AddResult(filterResult, <<t.ev, t.fid>>, r)
  /\ LET e == pluginEntries[t.name]
     IN  IF ~r
           THEN tasks' = tasks \ {t} /\ UNCHANGED <<handlerCalls, crashed>>
           ELSE IF t.key \in DOMAIN e.handlers
             THEN /\ tasks' = (tasks \ {t}) \cup {[t EXCEPT !.pc = "handler", !.hs = e.handlers[t.key], !.i = 1]}
                  /\ handlerCalls' = Inc(handlerCalls, <<t.ev, e.handlers[t.key][1]>>)
                  /\ UNCHANGED crashed
             ELSE /\ crashed' = TRUE
                  /\ UNCHANGED <<tasks, handlerCalls>>
  /\ UNCHANGED <<auxVars, echoVars, entries, regVars, nextEvent, seen, regDoneAt, filterCalls, decodeErrs>>

\* HandlerReturn that leaves the catch-all loop after its first handler.
HandlerReturnFirstOnly(t) ==
  /\ ~crashed
  /\ t \in tasks
  /\ t.pc = "handler"
  /\ tasks' = tasks \ {t}
  /\ UNCHANGED <<auxVars, echoVars, entries, regVars, nextEvent, seen, regDoneAt, filterCalls, filterResult,
                 handlerCalls, decodeErrs, crashed>>

\* The handler a goroutine is in returns: the goroutine calls the next
\* handler of its Handler value, or ends.
HandlerReturn(t) ==
  /\ ~crashed
  /\ t \in tasks
  /\ t.pc = "handler"
  /\ IF t.i < Len(t.hs)
       THEN /\ tasks' = (tasks \ {t}) \cup {[t EXCEPT !.i = t.i + 1]}
            /\ handlerCalls' = Inc(handlerCalls, <<t.ev, t.hs[t.i + 1]>>)
       ELSE tasks' = tasks \ {t} /\ UNCHANGED handlerCalls
  /\ UNCHANGED <<auxVars, echoVars, entries, regVars, nextEvent, seen, regDoneAt, filterCalls, filterResult, decodeErrs, crashed>>

\* -------------------------------------------------------------- echo queue
\* The clock seconds the model visits: the seconds around every multiple of
\* the ticker period.
Instants == {t \in 0..MaxTime : t % timeForWait \in {0, 1, timeForWait - 1}}

\* The five send methods.
Actions == {"send_group_msg", "send_private_msg", "set_group_kick", "set_group_ban",
            "set_group_whole_ban"}

\* CQWSMessage as built by a send method: Echo is time.Now().Unix().
Payload(action, t) == [action |-> action, echo |-> t]

\* c.echoqueue[echo]: the zero value false for a missing key (and a nil map).
Pending(q, echo) == echo \in DOMAIN q /\ q[echo]

\* delete(c.echoqueue, echo), as deqEcho does under the lock.
DeqEcho(q, echo) == [e \in DOMAIN q \ {echo} |-> q[e]]

\* The entries a sweep pass at clock second t logs and removes.
Expired(q, t) == {e \in DOMAIN q : q[e] /\ t - e > timeForWait}

\* APISendJSON without the IsAPIOk test: Marshal and Send whatever the
\* connection's state.
APISendJSONAlways(w, connected, data) == Append(w, data)

\* APISendJSON: nothing when the api connection is down, else Marshal and Send.
APISendJSON(w, connected, data) == IF ~connected THEN w ELSE Append(w, data)

\* The clock moves to the next second the model visits.
Tick ==
  /\ \E t \in Instants :
       /\ t > now
       /\ \A u \in Instants : u > now => t <= u
       /\ now' = t
  /\ UNCHANGED <<apiConnected, echoqueue, wire, sendCalls, replied, replyCount, apiErrs,
                 timeoutLog, nextTick, lastSweep, unlockedAccess>>
  /\ UNCHANGED <<auxVars, entries, regVars, evVars>>

\* The transport connects or loses the api connection.
ApiConnChange ==
  /\ apiConnected' = ~apiConnected
  /\ UNCHANGED <<now, echoqueue, wire, sendCalls, replied, replyCount, apiErrs,
                 timeoutLog, nextTick, lastSweep, unlockedAccess>>
  /\ UNCHANGED <<auxVars, entries, regVars, evVars>>

\* SendGroupMsg, SendPrivateMsg, SetGroupKick, SetGroupBan, SetGroupWholeBan:
\* build the payload with Echo = now and call APISendJSON.
SendCommand(action) ==
  /\ sendCalls < MaxSends
  /\ sendCalls' = sendCalls + 1
  /\ wire' = APISendJSON(wire, apiConnected, Payload(action, now))
  /\ UNCHANGED <<now, apiConnected, echoqueue, replied, replyCount, apiErrs,
                 timeoutLog, nextTick, lastSweep, unlockedAccess>>
  /\ UNCHANGED <<auxVars, entries, regVars, evVars>>

\* apiConn.OnMessage: decode the frame; on error log and return; otherwise
\* read c.echoqueue[echo] (no lock held) and, when true, call deqEcho, which
\* takes the lock, deletes the key and releases the lock.
ApiOnMessage(decodeOK, echo) ==
  /\ replyCount < MaxReplies
  /\ replyCount' = replyCount + 1
  /\ IF ~decodeOK
       THEN /\ apiErrs' = apiErrs + 1
            /\ UNCHANGED <<echoqueue, replied, unlockedAccess>>
       ELSE /\ replied' = replied \cup {echo}
            /\ unlockedAccess' = unlockedAccess \cup {"reply"}
            /\ IF Pending(echoqueue, echo)
                 THEN mu = "free" /\ echoqueue' = DeqEcho(echoqueue, echo)
                 ELSE UNCHANGED echoqueue
            /\ UNCHANGED apiErrs
  /\ UNCHANGED <<now, apiConnected, wire, sendCalls, timeoutLog, nextTick, lastSweep>>
  /\ UNCHANGED <<auxVars, entries, regVars, evVars>>

\* One firing of the sweep goroutine's ticker: read the clock, range over
\* c.echoqueue (no lock held), log and deqEcho every entry whose state is
\* true and whose age exceeds timeForWait.
SweepPass ==
  /\ now >= nextTick
  /\ nextTick' = nextTick + timeForWait
  /\ lastSweep' = now
  /\ unlockedAccess' = unlockedAccess \cup {"sweep"}
  /\ LET gone == Expired(echoqueue, now)
     IN  /\ gone # {} => mu = "free"
         /\ timeoutLog' = timeoutLog \cup gone
         /\ echoqueue' = [e \in DOMAIN echoqueue \ gone |-> echoqueue[e]]
  /\ UNCHANGED <<now, apiConnected, wire, sendCalls, replied, replyCount, apiErrs>>
  /\ UNCHANGED <<auxVars, entries, regVars, evVars>>

\* The echoes a reply frame can carry: those sent so far, and 0, the value of
\* a frame without an echo field.
ReplyEchoes == {wire[i].echo : i \in DOMAIN wire} \cup {0}

\* Client as constructed (c.echoqueue is nil) and initialized at second 0.
EchoInit ==
  /\ now = 0
  /\ apiConnected = FALSE
  /\ echoqueue = <<>>
  /\ wire = <<>>
  /\ sendCalls = 0
  /\ replied = {}
  /\ replyCount = 0
  /\ apiErrs = 0
  /\ timeoutLog = {}
  /\ nextTick = timeForWait
  /\ lastSweep = -1
  /\ unlockedAccess = {}

\* ------------------------------------------------------------ status query
\* The six keys GetStatus reads from the reply's data.
Flags == {"app_initialized", "app_enabled", "plugins_good", "app_good", "online", "good"}

\* What a key of the data object holds: a JSON boolean, nothing (the key is
\* absent, or null), or a value of another type.
JSONValues == {"true", "false", "absent", "other"}

\* response.Data after json decoding: nil (null or no data field), a
\* map[string]interface{} (a JSON object), or a value of another type.
NullData == [shape |-> "null", fields |-> [f \in Flags |-> "absent"]]

DataValues ==
  {NullData, [shape |-> "other", fields |-> [f \in Flags |-> "absent"]]}
  \cup {[shape |-> "object", fields |-> fs] : fs \in [Flags -> JSONValues]}

\* What one GetStatus call meets: c.apiURL, whether httpConn.Get returns a
\* response, whether its body decodes into a CQResponse, and the decoded
\* retcode and data.
StatusRequests ==
  [apiURL : {"", "http://host"}, getOK : BOOLEAN, decodeOK : BOOLEAN, retcode : {0, 1},
   data : DataValues]

NoFlags == [f \in Flags |-> FALSE]

\* The ways a GetStatus call ends: return nil, return a *CQTypeGetStatus, or
\* panic in a failed type assertion.
StatusNil == [kind |-> "nil", flags |-> NoFlags]

StatusPanic == [kind |-> "panic", flags |-> NoFlags]

StatusNone == [kind |-> "none", flags |-> NoFlags]

\* GetStatus: nil when the url is unset, the Get fails, the body does not
\* decode or retcode is not 0; then response.Data.(map[string]interface{})
\* and data[key].(bool) for the six keys, each of which panics when the
\* value is not of the asserted type.
GetStatus(req) ==
  IF req.apiURL = "" THEN StatusNil
  ELSE IF ~req.getOK THEN StatusNil
  ELSE IF ~req.decodeOK THEN StatusNil
  ELSE IF req.retcode # 0 THEN StatusNil
  ELSE IF req.data.shape # "object" THEN StatusPanic
  ELSE IF \E f \in Flags : req.data.fields[f] \notin {"true", "false"} THEN StatusPanic
  ELSE [kind |-> "status", flags |-> [f \in Flags |-> req.data.fields[f] = "true"]]

\* A caller calls GetStatus.
GetStatusCall ==
  /\ statusRes = StatusNone
  /\ statusRes' = GetStatus(statusReq)
  /\ UNCHANGED <<call2, statusReq, echoVars, entries, regVars, evVars>>

\* No GetStatus call is under way: the client as constructed (apiURL unset).
NoRequest == [apiURL |-> "", getOK |-> FALSE, decodeOK |-> FALSE, retcode |-> 0, data |-> NullData]

\* ----------------------------------------------------------- specification
\* Client as constructed (empty pluginEntries, unlocked mutex), any plugin
\* list of at most MaxPlugins plugins, RegisterAllPlugins about to be called.
ClientInit ==
  /\ entries \in PluginLists
  /\ regPc = "load"
  /\ regIdx = 1
  /\ loaded = <<>>
  /\ mu = "free"
  /\ pluginEntries = <<>>
  /\ errLog = {}
  /\ warnLog = {}
  /\ hookTasks = {}
  /\ hooksRun = [p \in Plugins |-> 0]
  /\ nextEvent = 1
  /\ seen = [e \in Events |-> <<>>]
  /\ regDoneAt = [e \in Events |-> FALSE]
  /\ tasks = {}
  /\ filterCalls = <<>>
  /\ filterResult = <<>>
  /\ handlerCalls = <<>>
  /\ decodeErrs = {}
  /\ crashed = FALSE
  /\ EchoInit
  /\ call2 = Call2Idle
  /\ statusRes = StatusNone

Init ==
  /\ ClientInit
  /\ statusReq = NoRequest

Next ==
  \/ RegLoad
  \/ RegLock
  \/ RegPair
  \/ RegNotify
  \/ RegUnlock
  \/ \E p \in Plugins : LoadedRun(p)
  \/ \E ok \in BOOLEAN : EventOnMessage(ok)
  \/ \E t \in tasks : CatchAllRun(t)
  \/ \E t \in tasks : FilterCall(t)
  \/ \E t \in tasks, r \in BOOLEAN : FilterReturn(t, r)
  \/ \E t \in tasks : HandlerReturn(t)

Spec == Init /\ [][Next]_vars

\* The echo queue's half of the client, with an empty plugin list.
InitEcho ==
  /\ Init
  /\ entries = <<>>

NextEcho ==
  \/ Tick
  \/ ApiConnChange
  \/ \E a \in Actions : SendCommand(a)
  \/ \E ok \in BOOLEAN, echo \in ReplyEchoes : ApiOnMessage(ok, echo)
  \/ SweepPass

SpecEcho == InitEcho /\ [][NextEcho]_vars

\* Two goroutines call RegisterAllPlugins.
NextReg2 ==
  \/ RegLoad
  \/ RegLock
  \/ RegPair
  \/ RegNotify
  \/ RegUnlock
  \/ \E p \in Plugins : LoadedRun(p)
  \/ Reg2Call
  \/ Reg2Load
  \/ Reg2Lock
  \/ Reg2Pair
  \/ Reg2Notify
  \/ Reg2Unlock
  \/ \E p \in Plugins : Loaded2Run(p)

SpecReg2 == Init /\ [][NextReg2]_vars

\* One GetStatus call, for every reply the http api can give.
InitStatus ==
  /\ ClientInit
  /\ entries = <<>>
  /\ statusReq \in StatusRequests

NextStatus == GetStatusCall

SpecStatus == InitStatus /\ [][NextStatus]_vars

\* ------------------------------------------------------------------ claims
\* The results filter x[2] has returned for event x[1].
Results(x) == IF x \in DOMAIN filterResult THEN filterResult[x] ELSE {}

\* Event ev was decoded and fanned out.
Dispatched(ev) == ev < nextEvent /\ ev \notin decodeErrs

\* Every goroutine started for event ev has ended.
Quiet(ev) == Dispatched(ev) /\ \A t \in tasks : t.ev # ev

\* The goroutine of event ev running name's catch-all handler has ended.
CatchAllDone(ev, name) ==
  Dispatched(ev) /\ \A t \in tasks : ~(t.ev = ev /\ t.name = name /\ t.key = noFilterKey)

\* The plugins whose entry loop 2 has installed so far, in order.
InstalledSeq ==
  IF regPc = "pair" THEN SubSeq(loaded, 1, regIdx - 1)
  ELSE IF regPc \in {"notify", "unlock", "done"} THEN loaded
  ELSE <<>>

\* Plugin p's entry is the one now stored under its name: p was installed
\* and no plugin of the same name was installed after it.
Registered(p) ==
  \E i \in DOMAIN InstalledSeq :
    /\ InstalledSeq[i] = p
    /\ \A j \in DOMAIN InstalledSeq : j > i => entries[InstalledSeq[j]].name # entries[p].name

\* Event ev was dispatched with plugin p registered: either the call had
\* returned with p's entry stored under its name, or p's entry was already
\* installed and no other plugin of the list has p's name.
RegisteredAt(ev, p) ==
  /\ Dispatched(ev)
  /\ \/ regDoneAt[ev] /\ Registered(p)
     \/ /\ entries[p].name \in DOMAIN seen[ev]
        /\ \A q \in DOMAIN entries : q # p => entries[q].name # entries[p].name

\* C1: for a key K present in both the filters and the handlers of a plugin
\* and an event dispatched with that plugin registered: the filter under K
\* is evaluated at most once, the handler under K has been invoked once if
\* that evaluation returned true and not at all otherwise (so never through
\* the catch-all handler), and when all goroutines of the event have ended
\* the filter has been evaluated and has returned.
C1_FilterGatesHandler ==
  \A ev \in Events, p \in DOMAIN entries, K \in Keys :
    (RegisteredAt(ev, p)
       /\ K \in entries[p].filters /\ K \in entries[p].handlers)
    => /\ Count(filterCalls, <<ev, <<p, K>>>>) <= 1
       /\ Count(handlerCalls, <<ev, <<p, K>>>>) = IF TRUE \in Results(<<ev, <<p, K>>>>) THEN 1 ELSE 0
       /\ Quiet(ev) => /\ Count(filterCalls, <<ev, <<p, K>>>>) = 1
                       /\ Results(<<ev, <<p, K>>>>) # {}

\* One plugin with a paired key and an unconditional handler; its filter
\* accepted event 1 and rejected event 2, and both events have been handled.
C1_Witness ==
  \E p \in DOMAIN entries, K \in Keys :
    /\ Registered(p)
    /\ K \in entries[p].filters /\ K \in entries[p].handlers
    /\ entries[p].handlers # {K}
    /\ regDoneAt[1] /\ regDoneAt[2] /\ Quiet(1) /\ Quiet(2)
    /\ Results(<<1, <<p, K>>>>) = {TRUE} /\ Count(handlerCalls, <<1, <<p, K>>>>) = 1
    /\ Results(<<2, <<p, K>>>>) = {FALSE} /\ Count(handlerCalls, <<2, <<p, K>>>>) = 0

\* C2: for a handler key K of a plugin with no filter under K, and an event
\* dispatched with that plugin registered: the handler is never invoked
\* more than once for the event, and it has been invoked exactly once when
\* the plugin's catch-all goroutine for the event has ended, whatever the
\* plugin's filters returned.
C2_UnconditionalOnce ==
  \A ev \in Events, p \in DOMAIN entries, K \in Keys :
    (RegisteredAt(ev, p)
       /\ K \in entries[p].handlers /\ K \notin entries[p].filters)
    => /\ Count(handlerCalls, <<ev, <<p, K>>>>) <= 1
       /\ CatchAllDone(ev, entries[p].name) => Count(handlerCalls, <<ev, <<p, K>>>>) = 1

\* A plugin with a paired key and an unconditional handler: its filter
\* rejected the event and the unconditional handler ran once all the same.
C2_Witness ==
  \E p \in DOMAIN entries, K \in Keys, F \in Keys :
    /\ Registered(p)
    /\ K \in entries[p].handlers /\ K \notin entries[p].filters
    /\ F \in entries[p].handlers /\ F \in entries[p].filters
    /\ regDoneAt[1] /\ Quiet(1)
    /\ Results(<<1, <<p, F>>>>) = {FALSE}
    /\ Count(handlerCalls, <<1, <<p, K>>>>) = 1

\* C3: for a loaded plugin and a filter key K with no handler under K: the
\* filter is never evaluated for any event, and once the plugin's entry has
\* been built the warning for K has been logged and, as long as that entry
\* is the one stored under the plugin's name, K is in none of its key list,
\* filter map and handler map.
C3_UnusedFilterDropped ==
  \A p \in DOMAIN entries, K \in Keys :
    (entries[p].loadOK /\ K \in entries[p].filters /\ K \notin entries[p].handlers)
    => /\ \A ev \in Events : Count(filterCalls, <<ev, <<p, K>>>>) = 0
       /\ p \in Range(InstalledSeq) => <<p, K>> \in warnLog
       /\ Registered(p) =>
            LET e == pluginEntries[entries[p].name]
            IN  /\ K \notin Range(e.keys)
                /\ K \notin DOMAIN e.fitlers
                /\ K \notin DOMAIN e.handlers

\* A plugin with an unused filter key and a paired key is registered, the
\* warning is logged, and an event has been handled to the end.
C3_Witness ==
  \E p \in DOMAIN entries, K \in Keys :
    /\ Registered(p)
    /\ K \in entries[p].filters /\ K \notin entries[p].handlers
    /\ Range(pluginEntries[entries[p].name].keys) # {}
    /\ <<p, K>> \in warnLog
    /\ regDoneAt[1] /\ Quiet(1)
    /\ \E F \in Keys : Count(filterCalls, <<1, <<p, F>>>>) = 1

\* One step of the RegisterAllPlugins call.
RegStep == RegLoad \/ RegLock \/ RegPair \/ RegNotify \/ RegUnlock

\* C4: when plugin P's Load fails, the call still runs to its return (it is
\* never stuck short of it), P is never in `loaded`, no entry holds a
\* filter or handler of P, none of P's filters or handlers is ever called,
\* and every plugin Q whose Load succeeds, before or after P in the list,
\* has an entry under its name once loop 2 is over: exactly the entry built
\* from the last loaded plugin of that name.
C4_LoadFailureIsLocal ==
  \A P \in DOMAIN entries :
    ~entries[P].loadOK
    => /\ ~crashed => (regPc = "done" \/ ENABLED RegStep)
       /\ P \notin Range(loaded)
       /\ \A n \in DOMAIN pluginEntries : \A k \in DOMAIN pluginEntries[n].handlers :
            /\ \A i \in DOMAIN pluginEntries[n].handlers[k] : pluginEntries[n].handlers[k][i][1] # P
            /\ k \in DOMAIN pluginEntries[n].fitlers => pluginEntries[n].fitlers[k][1] # P
       /\ \A ev \in Events, k \in Keys :
            Count(filterCalls, <<ev, <<P, k>>>>) = 0 /\ Count(handlerCalls, <<ev, <<P, k>>>>) = 0
       /\ regPc \in {"notify", "unlock", "done"} =>
            \A Q \in DOMAIN entries :
              entries[Q].loadOK =>
                /\ entries[Q].name \in DOMAIN pluginEntries
                /\ Registered(Q) =>
                     \E ford \in Perms(entries[Q].filters), hord \in Perms(entries[Q].handlers) :
                       pluginEntries[entries[Q].name] = Entry(Q, entries[Q], ford, hord)

\* The first plugin failed to load; the second, of the same name, loaded,
\* is registered, and its handler has run for an event.
C4_Witness ==
  /\ Len(entries) = 2
  /\ ~entries[1].loadOK /\ entries[2].loadOK
  /\ entries[1].name = entries[2].name
  /\ entries[1].handlers # {}
  /\ regPc = "done" /\ 1 \in errLog
  /\ Registered(2)
  /\ regDoneAt[1] /\ Quiet(1)
  /\ \E k \in Keys : Count(handlerCalls, <<1, <<2, k>>>>) = 1

\* C9: Loaded() of a plugin never runs more than once; the hook of a plugin
\* whose Load failed is neither started nor run; a hook is started only
\* after loop 2 has installed the entry of every loaded plugin; and when the
\* call has returned and every started hook has run, the hook of every
\* plugin whose Load succeeded has run exactly once.
C9_HooksOncePerLoaded ==
  \A p \in Plugins :
    /\ hooksRun[p] <= 1
    /\ (p \notin DOMAIN entries \/ ~entries[p].loadOK) => (hooksRun[p] = 0 /\ p \notin hookTasks)
    /\ (p \in hookTasks \/ hooksRun[p] > 0) =>
         /\ regPc \in {"notify", "unlock", "done"}
         /\ \A q \in DOMAIN entries :
              entries[q].loadOK => (q \in Range(InstalledSeq) /\ entries[q].name \in DOMAIN pluginEntries)
    /\ (regPc = "done" /\ hookTasks = {} /\ p \in DOMAIN entries /\ entries[p].loadOK) => hooksRun[p] = 1

\* Two plugins, the first failed and the second loaded: the call has
\* returned, the second's hook has run once and the first's never.
C9_Witness ==
  /\ Len(entries) = 2
  /\ ~entries[1].loadOK /\ entries[2].loadOK
  /\ regPc = "done" /\ hookTasks = {}
  /\ hooksRun[1] = 0 /\ hooksRun[2] = 1

\* C10: the event callback can take the next frame whatever the goroutines
\* of earlier events are doing; every goroutine it started can take its
\* first step (call its filter, or the first handler of the catch-all)
\* whatever the other goroutines are doing, and a goroutine whose filter is
\* evaluating can go on to its handler: nothing but a crash of the process
\* holds a goroutine back.
C10_FireAndForget ==
  ~crashed =>
    /\ nextEvent <= MaxEvents => ENABLED EventOnMessage(TRUE)
    /\ \A t \in tasks :
         /\ (t.pc = "start" /\ t.key = noFilterKey) => ENABLED CatchAllRun(t)
         /\ (t.pc = "start" /\ t.key # noFilterKey) => ENABLED FilterCall(t)
         /\ t.pc = "filter" => ENABLED FilterReturn(t, TRUE)

\* A handler called for event 1 has not returned; meanwhile a handler of
\* another plugin was called for event 1, event 2 was dispatched and a
\* handler was called for it.
C10_Witness ==
  \E t \in tasks :
    /\ t.ev = 1 /\ t.pc = "handler"
    /\ \E h \in FuncIds : h[1] # t.hs[t.i][1] /\ Count(handlerCalls, <<1, h>>) = 1
    /\ Dispatched(2)
    /\ \E h \in FuncIds : Count(handlerCalls, <<2, h>>) = 1

\* C5 (as claimed): the echo of every envelope sent on the api connection
\* is pending in c.echoqueue until a reply carrying it has been received or
\* the sweep has logged its timeout.
C5_SentEchoIsPending ==
  \A i \in DOMAIN wire :
    (wire[i].echo \notin replied /\ wire[i].echo \notin timeoutLog)
    => Pending(echoqueue, wire[i].echo)

\* C7 (as claimed): once a sweep pass has run at a clock second more than
\* timeForWait after a command was sent, and no reply carrying the command's
\* echo has been received, the timeout of that echo has been logged and the
\* echo is not pending.
C7_UnansweredExpires ==
  \A i \in DOMAIN wire :
    (wire[i].echo \notin replied /\ lastSweep - wire[i].echo > timeForWait)
    => (wire[i].echo \in timeoutLog /\ ~Pending(echoqueue, wire[i].echo))

\* C8 (as claimed): no actor has read or ranged over c.echoqueue without
\* holding c.mu.
C8_EveryAccessLocked == unlockedAccess = {}

\* C11: a call of a send method made while the api connection is down
\* hands nothing to the connection and changes neither c.echoqueue nor
\* c.pluginEntries; a call made while it is up hands the connection exactly
\* one envelope, the one built by the call, after those already sent.  No
\* call reports an error or crashes the process.
C11_DisconnectedSendDropped ==
  [][sendCalls' = sendCalls + 1 =>
       /\ apiErrs' = apiErrs
       /\ crashed' = crashed
       /\ echoqueue' = echoqueue
       /\ pluginEntries' = pluginEntries
       /\ IF apiConnected
            THEN /\ Len(wire') = Len(wire) + 1
                 /\ SubSeq(wire', 1, Len(wire)) = wire
                 /\ wire'[Len(wire')].echo = now
                 /\ wire'[Len(wire')].action \in Actions
            ELSE wire' = wire]_vars

\* Two calls of the send methods have been made, one with the connection
\* down and one with it up: one envelope is on the wire.
C11_Witness ==
  /\ sendCalls = 2
  /\ Len(wire) = 1

\* The i-th envelope sent is in flight: no reply carrying its echo has been
\* received and the sweep has not logged its timeout.
InFlight(i) == wire[i].echo \notin replied /\ wire[i].echo \notin timeoutLog

\* C12 (as claimed): any two envelopes in flight together carry different
\* echoes.
C12_InFlightEchoesDistinct ==
  \A i, j \in DOMAIN wire :
    (i # j /\ InFlight(i) /\ InFlight(j)) => wire[i].echo # wire[j].echo

RECURSIVE PairAll(_, _)
\* The registries loop 2 can leave behind when it starts from registry reg
\* and runs, undisturbed, over the plugin numbers ld.
PairAll(reg, ld) ==
  IF ld = <<>> THEN {reg}
  ELSE LET p == Head(ld)
           plug == entries[p]
       IN  UNION {PairAll(Install(reg, plug.name, Entry(p, plug, ford, hord)), Tail(ld)) :
                    ford \in Perms(plug.filters), hord \in Perms(plug.handlers)}

\* The registries left by a call that loaded ld1 followed by a call that
\* loaded ld2, on the client as constructed.
Serial(ld1, ld2) == UNION {PairAll(reg, ld2) : reg \in PairAll(<<>>, ld1)}

\* The call at position pc holds c.mu: it is in loop 2 or loop 3, or about
\* to return.
InLocked(pc) == pc \in {"pair", "notify", "unlock"}

\* C13: of two concurrent RegisterAllPlugins calls, never both are between
\* c.mu.Lock() and the deferred Unlock, where entries are built and
\* installed; the mutex is held by the call that is there; while one call
\* is there the registry holds nothing but what the calls' serial runs
\* leave; and when both calls have returned the registry is one that the
\* first call followed by the second, or the second followed by the first,
\* leaves behind.
C13_PairingSerialized ==
  /\ ~(InLocked(regPc) /\ InLocked(call2.pc))
  /\ InLocked(regPc) => mu = "reg"
  /\ InLocked(call2.pc) => mu = "reg2"
  /\ (regPc = "pair" /\ call2.pc # "done") =>
       pluginEntries \in PairAll(<<>>, SubSeq(loaded, 1, regIdx - 1))
  /\ (call2.pc = "pair" /\ regPc # "done") =>
       pluginEntries \in PairAll(<<>>, SubSeq(call2.loaded, 1, call2.idx - 1))
  /\ (call2.pc = "pair" /\ regPc = "done") =>
       pluginEntries \in UNION {PairAll(reg, SubSeq(call2.loaded, 1, call2.idx - 1)) :
                                  reg \in PairAll(<<>>, loaded)}
  /\ (regPc = "pair" /\ call2.pc = "done") =>
       pluginEntries \in UNION {PairAll(reg, SubSeq(loaded, 1, regIdx - 1)) :
                                  reg \in PairAll(<<>>, call2.loaded)}
  /\ (regPc = "done" /\ call2.pc = "done") =>
       pluginEntries \in Serial(loaded, call2.loaded) \cup Serial(call2.loaded, loaded)

\* The second call, with two plugins loaded, stands at c.mu.Lock() while the
\* first call is in the middle of loop 2, one entry installed and one to go.
C13_Witness ==
  /\ regPc = "pair" /\ regIdx = 2
  /\ call2.pc = "load" /\ call2.idx > Len(entries)
  /\ Len(call2.loaded) = 2
  /\ DOMAIN pluginEntries # {}

\* RegisterAllPlugins has a write of c.pluginEntries still ahead of it: it is
\* in loop 2, or in loop 1 with a plugin loaded or still to load.
WritesPending ==
  \/ regPc = "pair"
  \/ /\ regPc = "load"
     /\ \/ loaded # <<>>
        \/ \E i \in DOMAIN entries : i >= regIdx /\ entries[i].loadOK

\* C14 (as claimed): once the event callback has ranged over
\* c.pluginEntries for some event, RegisterAllPlugins writes the map no
\* more: every write of the registry precedes the first read by dispatch.
C14_WritesPrecedeReads ==
  (\E ev \in Events : Dispatched(ev)) => ~WritesPending

\* The request channel is unavailable to the call: the url is unset, the
\* request fails, the body does not decode, or retcode is not 0.
Unavailable(req) ==
  req.apiURL = "" \/ ~req.getOK \/ ~req.decodeOK \/ req.retcode # 0

\* The reply's data is malformed: null, not an object, or an object in which
\* one of the six flags is missing or not a boolean.
Malformed(req) ==
  \/ req.data.shape # "object"
  \/ \E f \in Flags : req.data.fields[f] \notin {"true", "false"}

\* C15 (as claimed): a GetStatus call never panics; it returns nil when the
\* request channel is unavailable or the reply's data is malformed, and
\* otherwise returns the six flags of the reply.
C15_StatusNilOrFlags ==
  statusRes # StatusNone =>
    /\ statusRes.kind # "panic"
    /\ IF Unavailable(statusReq) \/ Malformed(statusReq)
         THEN statusRes = StatusNil
         ELSE /\ statusRes.kind = "status"
              /\ \A f \in Flags : statusRes.flags[f] = (statusReq.data.fields[f] = "true")

\* C16 (as claimed): once loop 2 is over, c.pluginEntries has as many
\* entries as plugins were loaded, and the entry of every loaded plugin is
\* the one stored under its name, so that dispatch reaches its handlers.
C16_OneEntryPerLoaded ==
  regPc \in {"notify", "unlock", "done"} =>
    /\ Cardinality(DOMAIN pluginEntries) = Len(loaded)
    /\ \A i \in DOMAIN loaded : Registered(loaded[i])

C19_UnitsPerEvent ==
  /\ [][(nextEvent' = nextEvent + 1 /\ nextEvent \notin decodeErrs') =>
          \A n \in DOMAIN pluginEntries :
            LET started == {t \in tasks' \ tasks : t.name = n}
            IN  /\ Cardinality({t \in started : t.key = noFilterKey}) = 1
                /\ Cardinality(started) = 1 + Len(pluginEntries[n].keys)
                /\ \A t \in started : t.ev = nextEvent /\ t.pc = "start"]_vars
  /\ [](\A ev \in Events, n \in Names :
          LET cs == {t \in tasks : t.ev = ev /\ t.name = n /\ t.key = noFilterKey}
          IN  /\ Cardinality(cs) <= 1
              /\ \A t \in cs : \A j \in DOMAIN t.hs :
                   Count(handlerCalls, <<ev, t.hs[j]>>) = IF j <= t.i THEN 1 ELSE 0)

\* The catch-all goroutine of an entry with two handlers without filter is
\* in the second, the first having returned; the event was fanned out over
\* a registry with another entry, one that has no handler without filter.
C19_Witness ==
  \E t \in tasks :
    /\ t.key = noFilterKey /\ Len(t.hs) = 2 /\ t.i = 2 /\ t.pc = "handler"
    /\ Count(handlerCalls, <<t.ev, t.hs[1]>>) = 1
    /\ \E n \in DOMAIN seen[t.ev] :
         /\ n # t.name
         /\ seen[t.ev][n].handlers[noFilterKey] = <<>>

====
